---- MODULE Spec2Model ----
(***************************************************************************)
(* Model of the Carousel and Accordion components and of the document      *)
(* ready / MutationObserver registration in                                *)
(* clientlib-dependencies.min.ACSHASH520aa3c2d36423af097750c789a6bd33.js   *)
(*                                                                         *)
(* Three specifications share the module:                                  *)
(*   Spec           one Carousel instance and the events it receives       *)
(*   SpecAccordion  one Accordion instance and the events it receives      *)
(*   SpecRegistrar  the document, the two onDocumentReady handlers and     *)
(*                  the two MutationObserver callbacks                     *)
(***************************************************************************)
EXTENDS Integers, Sequences, FiniteSets, TLC

VARIABLES
    carousel,    \* Carousel instances: id -> the markup and the fields of `that`
    page,        \* document-wide state read by the Carousel code
    accordion,   \* the Accordion instance: its markup and the fields of `that`
    dom          \* the document tree, the discovery markers and the observers

vars == <<carousel, page, accordion, dom>>

(***************************************************************************)
(* Bounds of the model.                                                    *)
(***************************************************************************)
MaxItems == 3
MaxActive == 4
MaxTimers == 2
MaxPanels == 4
MaxNodes == 2
MaxRecords == 2

(***************************************************************************)
(* JavaScript numbers as far as the code needs them: the integers and NaN. *)
(* `undefined` only ever meets a number through -, +, <, > or ===, where   *)
(* it behaves as NaN, so one value stands for both.                        *)
(***************************************************************************)
NaN == -1000

IsNaN(x) == x = NaN

JsLt(a, b) == ~IsNaN(a) /\ ~IsNaN(b) /\ a < b

JsGt(a, b) == ~IsNaN(a) /\ ~IsNaN(b) /\ a > b

JsStrictEq(a, b) == ~IsNaN(a) /\ ~IsNaN(b) /\ a = b

JsPlus(a, b) == IF IsNaN(a) \/ IsNaN(b) THEN NaN ELSE a + b

JsMinus(a, b) == IF IsNaN(a) \/ IsNaN(b) THEN NaN ELSE a - b

\* parseInt(that._active), line 404
parseInt(x) == x

(***************************************************************************)
(* A cached role: n hooks found in the markup.  0 hooks leave the key      *)
(* undefined, 1 hook stores the element itself, 2 or more an array.        *)
(***************************************************************************)
IsDefined(n) == n >= 1

IsArray(n) == n >= 2

\* the .length of a cached role: arrays have one, an HTMLElement has none
LengthOf(n) == IF IsArray(n) THEN n ELSE NaN

\* role[i] is an element: only an array has indexed elements
HasIndex(n, i) == IsArray(n) /\ ~IsNaN(i) /\ i >= 0 /\ i < n

(***************************************************************************)
(* Key codes and option defaults of the source.                            *)
(***************************************************************************)
SPACE == 32
ENTER == 13
END == 35
HOME == 36
ARROW_LEFT == 37
ARROW_UP == 38
ARROW_RIGHT == 39
ARROW_DOWN == 40
DefaultDelay == 5000

\* an attribute that the element does not carry (getAttribute gives null,
\* the dataset key is missing)
Absent == "<absent>"

\* the numbers the attribute strings of the model parse to; every other
\* string makes parseFloat return NaN
NumericStrings == ("500" :> 500) @@ ("200" :> 200) @@ ("0" :> 0) @@ ("12px" :> 12)

parseFloat(str) == IF str \in DOMAIN NumericStrings THEN NumericStrings[str] ELSE NaN

\* values of that._properties.delay: a number, an attribute string or null
NumberValue(n) == [t |-> "number", s |-> "", n |-> n]

StringValue(str) == [t |-> "string", s |-> str, n |-> parseFloat(str)]

NullValue == [t |-> "null", s |-> "", n |-> 0]

(***************************************************************************)
(* Carousel: the option schema (properties, lines 36-77).                  *)
(***************************************************************************)
\* transform of "autoplay" and "autopauseDisabled"
transformFlag(value) == ~(value = Absent)

\* transform of "delay": null when the string is no number
transformDelay(value) ==
    IF IsNaN(parseFloat(value)) THEN NullValue ELSE NumberValue(parseFloat(value))

\* readData: the data-cmp-* attributes of the root, without "is" and the hook
readData(m) ==
    [autoplay |-> m.dataAutoplay,
     delay |-> m.dataDelay,
     autopauseDisabled |-> m.dataAutopauseDisabled]

\* setupProperties without the fallback to the default for a null value
setupPropertiesNoFallback(options) ==
    [autoplay |-> IF options.autoplay # Absent
                  THEN transformFlag(options.autoplay) ELSE FALSE,
     delay |-> IF options.delay # Absent
               THEN transformDelay(options.delay) ELSE NumberValue(DefaultDelay),
     autopauseDisabled |-> IF options.autopauseDisabled # Absent
                           THEN transformFlag(options.autopauseDisabled) ELSE FALSE]

\* setupProperties: option present -> transform, null -> default
setupProperties(options) ==
    [autoplay |-> IF options.autoplay # Absent
                  THEN transformFlag(options.autoplay) ELSE FALSE,
     delay |-> IF options.delay # Absent /\ transformDelay(options.delay) # NullValue
               THEN transformDelay(options.delay) ELSE NumberValue(DefaultDelay),
     autopauseDisabled |-> IF options.autopauseDisabled # Absent
                           THEN transformFlag(options.autopauseDisabled) ELSE FALSE]

\* cacheElements: the hooks of the subtree grouped by role
NoElements ==
    [item |-> 0, indicator |-> 0, previous |-> FALSE, next |-> FALSE,
     pause |-> FALSE, play |-> FALSE, indicators |-> FALSE]

cacheElements(m) ==
    [item |-> m.item, indicator |-> m.indicator, previous |-> m.previous,
     next |-> m.next, pause |-> m.pause, play |-> m.play,
     indicators |-> m.indicators]

(***************************************************************************)
(* Carousel operations.  Each takes the world w = [car, page, by] and the  *)
(* instance c it runs on and gives the world it leaves.  car[c].threw      *)
(* records that the running handler raised a TypeError; w.by names the     *)
(* kind of event being handled ("manual" or "timer") and car[c].navigatedBy *)
(* keeps it for the last navigation that was carried out (history only).   *)
(* car[c].attached tells whether the root is in the document, and          *)
(* car[c].liveAtRemoval keeps whether an interval of the instance was live *)
(* when the root left it (history only).                                   *)
(***************************************************************************)
Min(S) == CHOOSE x \in S : \A y \in S : x <= y

\* document.querySelector('.cmp-carousel'): the first Carousel root in the
\* document, 0 when there is none
FirstCarousel(w) ==
    IF \E c \in DOMAIN w.car : w.car[c].attached
    THEN Min({c \in DOMAIN w.car : w.car[c].attached}) ELSE 0

\* document.querySelector('.cmp-carousel__action--pause' / '--play'):
\* the control of the first Carousel that has one, 0 when there is none
FirstPause(w) ==
    IF \E c \in DOMAIN w.car : w.car[c].attached /\ w.car[c].m.pause
    THEN Min({c \in DOMAIN w.car : w.car[c].attached /\ w.car[c].m.pause})
    ELSE 0

FirstPlay(w) ==
    IF \E c \in DOMAIN w.car : w.car[c].attached /\ w.car[c].m.play
    THEN Min({c \in DOMAIN w.car : w.car[c].attached /\ w.car[c].m.play})
    ELSE 0

Throw(w, c) == [w EXCEPT !.car[c].threw = TRUE]

\* window.setInterval: an id that no live interval of the instance has
NewTimerId(live) ==
    IF \E i \in 1..MaxTimers : i \notin live
    THEN Min({i \in 1..MaxTimers : i \notin live}) ELSE MaxTimers

clearAutoplayInterval(w, c) ==
    [w EXCEPT !.car[c].timers = @ \ {w.car[c].autoplayIntervalId},
              !.car[c].autoplayIntervalId = 0]

\* resetAutoplayInterval scheduling without cancelling the stored handle
resetAutoplayIntervalNoClear(w, c) ==
    LET me == w.car[c]
        id == NewTimerId(me.timers)
    IN  IF me.paused \/ ~me.properties.autoplay
        THEN w
        ELSE [w EXCEPT !.car[c].autoplayIntervalId = id,
                       !.car[c].timers = @ \cup {id}]

resetAutoplayInterval(w, c) ==
    LET me == w.car[c]
        first == FirstCarousel(w)
        left == w.car[first].dataCmpLeft
        delay == IF left # Absent /\ left # ""
                 THEN StringValue(left)
                 ELSE IF w.car[first].m.dataDelay # Absent
                      THEN StringValue(w.car[first].m.dataDelay) ELSE NullValue
        w1 == [w EXCEPT !.car[c].properties.delay = delay,
                        !.car[first].dataCmpLeft = Absent]
        w2 == clearAutoplayInterval(w1, c)
        id == NewTimerId(w2.car[c].timers)
    IN  IF first = 0 \/ me.paused \/ ~me.properties.autoplay
        THEN w
        ELSE [w2 EXCEPT !.car[c].autoplayIntervalId = id,
                        !.car[c].timers = @ \cup {id},
                        !.car[c].scheduledDelay = delay]

setActionDisabled(w, c, action, disable) ==
    IF ~w.car[c].elements[action]
    THEN w
    ELSE IF action = "pause"
         THEN [w EXCEPT !.car[c].pauseDisabled = disable]
         ELSE [w EXCEPT !.car[c].playDisabled = disable]

\* refreshPlayPauseActions that disables both controls alike
refreshPlayPauseActionsAlike(w, c) ==
    LET w1 == setActionDisabled(w, c, "pause", w.car[c].paused)
    IN  setActionDisabled(w1, c, "play", w.car[c].paused)

refreshPlayPauseActions(w, c) ==
    LET w1 == setActionDisabled(w, c, "pause", w.car[c].paused)
    IN  setActionDisabled(w1, c, "play", ~w.car[c].paused)

\* refreshActive without its loop: no marker is set
refreshActiveNoMarker(w, c) == w

\* refreshActive: the loop stops with a TypeError at the first index that
\* has no indicator element; the item at that index is already updated
refreshActive(w, c) ==
    LET me == w.car[c]
        items == me.elements.item
        indicators == me.elements.indicator
        bad == {i \in 0..(items - 1) : ~HasIndex(indicators, i)}
        stop == IF bad = {} THEN items ELSE Min(bad)
        itemsDone == {i \in 0..(items - 1) : i <= stop}
        indicatorsDone == {i \in 0..(items - 1) : i < stop}
        now == {i \in 0..(items - 1) : JsStrictEq(i, parseInt(me.active))}
    IN  IF ~IsDefined(items)
        THEN w
        ELSE IF IsArray(items)
        THEN [w EXCEPT
                !.car[c].itemActive = (@ \ itemsDone) \cup (now \cap itemsDone),
                !.car[c].indicatorActive =
                    (@ \ indicatorsDone) \cup (now \cap indicatorsDone),
                !.car[c].threw = @ \/ (bad # {})]
        ELSE IF indicators = 1
        THEN [w EXCEPT !.car[c].itemActive = @ \cup {0},
                       !.car[c].indicatorActive = @ \cup {0}]
        ELSE [w EXCEPT !.car[c].itemActive = @ \cup {0},
                       !.car[c].threw = TRUE]

\* the index after / before that._active, with looping
getNextIndex(w, c) ==
    IF JsStrictEq(w.car[c].active, JsMinus(LengthOf(w.car[c].elements.item), 1))
    THEN 0 ELSE JsPlus(w.car[c].active, 1)

getPreviousIndex(w, c) ==
    IF JsStrictEq(w.car[c].active, 0)
    THEN JsMinus(LengthOf(w.car[c].elements.item), 1)
    ELSE JsMinus(w.car[c].active, 1)

\* hovered as navigate and play compute it: parentElement.querySelector(":hover");
\* the pointer is over no element outside the document
IsHovered(w, c) == w.car[c].attached /\ w.car[c].hovered

navigate(w, c, index) ==
    LET me == w.car[c]
        w1 == refreshActive([w EXCEPT !.car[c].active = index,
                                      !.car[c].navigatedBy = w.by], c)
        w2 == resetAutoplayInterval(w1, c)
    IN  IF JsLt(index, 0)
        THEN w
        ELSE IF ~IsDefined(me.elements.item)
        THEN Throw(w, c)
        ELSE IF JsGt(index, JsMinus(LengthOf(me.elements.item), 1))
        THEN w
        ELSE IF w1.car[c].threw
        THEN w1
        ELSE IF w2.car[c].attached /\ ~IsHovered(w2, c)
        THEN resetAutoplayInterval(w2, c)
        ELSE w2

\* navigate, then focusWithoutScroll(that._elements["indicator"][index])
navigateAndFocusIndicator(w, c, index) ==
    LET w1 == navigate(w, c, index)
    IN  IF w1.car[c].threw
        THEN w1
        ELSE IF HasIndex(w1.car[c].elements.indicator, index)
        THEN w1
        ELSE Throw(w1, c)

\* pause that leaves the interval running
pauseNoClear(w, c) ==
    refreshPlayPauseActions([w EXCEPT !.car[c].paused = TRUE], c)

pause(w, c) ==
    refreshPlayPauseActions(
        clearAutoplayInterval([w EXCEPT !.car[c].paused = TRUE], c), c)

play(w, c) ==
    LET w1 == [w EXCEPT !.car[c].paused = FALSE]
        w2 == IF w1.car[c].properties.autopauseDisabled \/ ~IsHovered(w1, c)
              THEN resetAutoplayInterval(w1, c) ELSE w1
    IN  refreshPlayPauseActions(w2, c)

\* onPauseClick / onPlayClick: the counterpart control gets the focus
onPauseClick(w, c) ==
    LET w1 == pause(w, c)
    IN  IF w1.car[c].elements.play THEN w1 ELSE Throw(w1, c)

onPlayClick(w, c) ==
    LET w1 == play(w, c)
    IN  IF w1.car[c].elements.pause THEN w1 ELSE Throw(w1, c)

\* the controls a keydown can come from, besides any other element
KeyTargets == {"previous", "next", "pause", "play", "other"}

KeyCodes == {SPACE, END, HOME, ARROW_LEFT, ARROW_UP, ARROW_RIGHT, ARROW_DOWN, ENTER}

\* onKeyDown whose SPACE case does not look at the target
onKeyDownAnyTarget(w, c, keyCode, target) ==
    LET me == w.car[c]
        index == me.active
        lastIndex == JsMinus(LengthOf(me.elements.indicator), 1)
        toggled == IF me.properties.autoplay
                   THEN IF ~me.paused THEN pause(w, c) ELSE play(w, c)
                   ELSE w
    IN  IF ~IsDefined(me.elements.indicator)
        THEN Throw(w, c)
        ELSE IF keyCode \in {ARROW_LEFT, ARROW_UP}
        THEN IF JsGt(index, 0)
             THEN navigateAndFocusIndicator(w, c, JsMinus(index, 1)) ELSE w
        ELSE IF keyCode \in {ARROW_RIGHT, ARROW_DOWN}
        THEN IF JsLt(index, lastIndex)
             THEN navigateAndFocusIndicator(w, c, JsPlus(index, 1)) ELSE w
        ELSE IF keyCode = HOME
        THEN navigateAndFocusIndicator(w, c, 0)
        ELSE IF keyCode = END
        THEN navigateAndFocusIndicator(w, c, lastIndex)
        ELSE IF keyCode = SPACE
        THEN IF (target = "pause" /\ ~me.elements.play)
                \/ (target = "play" /\ ~me.elements.pause)
             THEN Throw(toggled, c) ELSE toggled
        ELSE w

onKeyDown(w, c, keyCode, target) ==
    LET me == w.car[c]
        index == me.active
        lastIndex == JsMinus(LengthOf(me.elements.indicator), 1)
        toggled == IF me.properties.autoplay /\ target \notin {"previous", "next"}
                   THEN IF ~me.paused THEN pause(w, c) ELSE play(w, c)
                   ELSE w
    IN  IF ~IsDefined(me.elements.indicator)
        THEN Throw(w, c)
        ELSE IF keyCode \in {ARROW_LEFT, ARROW_UP}
        THEN IF JsGt(index, 0)
             THEN navigateAndFocusIndicator(w, c, JsMinus(index, 1)) ELSE w
        ELSE IF keyCode \in {ARROW_RIGHT, ARROW_DOWN}
        THEN IF JsLt(index, lastIndex)
             THEN navigateAndFocusIndicator(w, c, JsPlus(index, 1)) ELSE w
        ELSE IF keyCode = HOME
        THEN navigateAndFocusIndicator(w, c, 0)
        ELSE IF keyCode = END
        THEN navigateAndFocusIndicator(w, c, lastIndex)
        ELSE IF keyCode = SPACE
        THEN IF (target = "pause" /\ ~me.elements.play)
                \/ (target = "play" /\ ~me.elements.pause)
             THEN Throw(toggled, c) ELSE toggled
        ELSE w

\* element.click() on a control of instance o: a disabled button dispatches
\* nothing, and the listener exists only when bindEvents added it
\* element.click() on a pause control whose listener was added whether or
\* not the Carousel plays by itself
ClickPauseAnyMode(w, o) ==
    IF o # 0 /\ ~w.car[o].pauseDisabled /\ w.car[o].bound
    THEN onPauseClick(w, o) ELSE w

ClickPause(w, o) ==
    IF o # 0 /\ ~w.car[o].pauseDisabled /\ w.car[o].bound
       /\ w.car[o].properties.autoplay
    THEN onPauseClick(w, o) ELSE w

ClickPlay(w, o) ==
    IF o # 0 /\ ~w.car[o].playDisabled /\ w.car[o].bound
       /\ w.car[o].properties.autoplay
    THEN onPlayClick(w, o) ELSE w

onMouseEnter(w, c) == ClickPause(clearAutoplayInterval(w, c), FirstPause(w))

\* onMouseLeave without the click on the play control
onMouseLeaveNoPlay(w, c) == resetAutoplayInterval(w, c)

onMouseLeave(w, c) == ClickPlay(resetAutoplayInterval(w, c), FirstPlay(w))

\* the function given to window.setInterval
intervalCallback(w, c, focusInIndicators) ==
    IF w.page.hidden
    THEN w
    ELSE IF ~w.car[c].elements.indicators
    THEN Throw(w, c)
    ELSE IF focusInIndicators
    THEN navigateAndFocusIndicator(w, c, getNextIndex(w, c))
    ELSE navigate(w, c, getNextIndex(w, c))

\* the request messages of the editor frame; instance c carries
\* data-cmp-panelcontainer-id = c
MessageTypes == {"cmp-carousel", "cmp-accordion"}

MessageOperations == {"navigate", "other"}

onCarouselMessage(w, c, message) ==
    IF message.type = "cmp-carousel" /\ message.id = c
       /\ message.operation = "navigate"
    THEN navigate(w, c, message.index)
    ELSE w

bindEvents(w, c) == [w EXCEPT !.car[c].bound = TRUE]

\* Carousel.init
CarouselInit(w, c) ==
    LET m == w.car[c].m
        w1 == [w EXCEPT !.car[c].is = FALSE,
                        !.car[c].instances = @ + 1,
                        !.car[c].properties = setupProperties(readData(m)),
                        !.car[c].elements = cacheElements(m),
                        !.car[c].active = 0,
                        !.car[c].paused = FALSE]
        w2 == refreshActive(w1, c)
        w3 == refreshPlayPauseActions(resetAutoplayInterval(bindEvents(w2, c), c), c)
        w4 == IF IsDefined(m.item) THEN w3 ELSE w1
    IN  IF IsDefined(m.item) /\ w2.car[c].threw
        THEN w2
        ELSE IF w.page.granite
        THEN [w4 EXCEPT !.car[c].subscribed = TRUE]
        ELSE w4

(***************************************************************************)
(* Specification Spec: Carousel instances in a document.                   *)
(***************************************************************************)
\* the markup of a Carousel root: how many hooks of each role its subtree
\* holds and which data-cmp-* attributes the root carries
\* (one indicator per item, or one more or one less)
CarouselMarkups ==
    {m \in [item : 0..MaxItems, indicator : 0..MaxItems,
            previous : BOOLEAN, next : BOOLEAN, pause : BOOLEAN, play : BOOLEAN,
            indicators : BOOLEAN,
            dataAutoplay : {Absent, ""}, dataAutopauseDisabled : {Absent, ""},
            dataDelay : {"500"}] :
        m.indicator \in {m.item - 1, m.item, m.item + 1}}

\* a root that no Carousel was constructed for yet
Unconstructed(m, left) ==
    [m |-> m, dataCmpLeft |-> left, is |-> TRUE, instances |-> 0,
     properties |-> [autoplay |-> FALSE, delay |-> NullValue,
                     autopauseDisabled |-> FALSE],
     elements |-> NoElements, active |-> NaN, paused |-> FALSE,
     autoplayIntervalId |-> 0, timers |-> {}, scheduledDelay |-> NullValue,
     bound |-> FALSE, subscribed |-> FALSE, hovered |-> FALSE,
     pauseDisabled |-> FALSE, playDisabled |-> FALSE,
     itemActive |-> {}, indicatorActive |-> {}, threw |-> FALSE,
     attached |-> TRUE, navigatedBy |-> "none", liveAtRemoval |-> FALSE]

\* the variables of the other specifications while this one runs
IdleAccordion == [instances |-> 0]

IdleCarousel == <<>>

IdleDom == [ready |-> {}]

Init ==
    /\ \E m \in CarouselMarkups : carousel = (1 :> Unconstructed(m, Absent))
    /\ page \in [hidden : {FALSE}, granite : BOOLEAN]
    /\ accordion = IdleAccordion
    /\ dom = IdleDom

World == [car |-> carousel, page |-> page, by |-> "manual"]

\* a handler starts with no error raised
BeginEvent(by) ==
    [car |-> [c \in DOMAIN carousel |-> [carousel[c] EXCEPT !.threw = FALSE]],
     page |-> page, by |-> by]

Begin == BeginEvent("manual")

\* that._active of the instances stays within the values the model follows
Bounded(w) ==
    \A c \in DOMAIN w.car : IsNaN(w.car[c].active) \/ w.car[c].active <= MaxActive

Commit(w) ==
    /\ Bounded(w)
    /\ carousel' = w.car
    /\ page' = w.page
    /\ UNCHANGED <<accordion, dom>>

\* new Carousel({element, options}) on a root found by its marker
Construct(c) ==
    /\ carousel[c].is
    /\ Commit(CarouselInit(Begin, c))

PreviousClick(c) ==
    /\ carousel[c].bound /\ carousel[c].elements.previous
    /\ Commit(navigate(Begin, c, getPreviousIndex(Begin, c)))

NextClick(c) ==
    /\ carousel[c].bound /\ carousel[c].elements.next
    /\ Commit(navigate(Begin, c, getNextIndex(Begin, c)))

IndicatorClick(c, i) ==
    /\ carousel[c].bound /\ HasIndex(carousel[c].elements.indicator, i)
    /\ Commit(navigateAndFocusIndicator(Begin, c, i))

PauseClick(c) ==
    /\ carousel[c].m.pause /\ ~carousel[c].pauseDisabled
    /\ Commit(ClickPause(Begin, c))

PlayClick(c) ==
    /\ carousel[c].m.play /\ ~carousel[c].playDisabled
    /\ Commit(ClickPlay(Begin, c))

KeyDown(c, keyCode, target) ==
    /\ carousel[c].bound
    \* the target matters to the SPACE branch alone
    /\ IF target = "other" THEN TRUE ELSE keyCode = SPACE /\ carousel[c].m[target]
    /\ Commit(onKeyDown(Begin, c, keyCode, target))

MouseEnter(c) ==
    /\ ~carousel[c].hovered
    /\ LET w == [Begin EXCEPT !.car[c].hovered = TRUE]
       IN  Commit(IF carousel[c].bound /\ ~carousel[c].properties.autopauseDisabled
                  THEN onMouseEnter(w, c) ELSE w)

MouseLeave(c) ==
    /\ carousel[c].hovered
    /\ LET w == [Begin EXCEPT !.car[c].hovered = FALSE]
       IN  Commit(IF carousel[c].bound /\ ~carousel[c].properties.autopauseDisabled
                  THEN onMouseLeave(w, c) ELSE w)

\* a live interval of the instance fires
TimerTick(c, id, focusInIndicators) ==
    /\ id \in carousel[c].timers
    /\ focusInIndicators => carousel[c].m.indicators
    /\ Commit(intervalCallback(BeginEvent("timer"), c, focusInIndicators))

VisibilityChange ==
    Commit([Begin EXCEPT !.page.hidden = ~@])

RemoteIndexes == (-1..MaxItems) \cup {NaN}

\* the index is read by the "navigate" branch alone
Messages ==
    {message \in [type : MessageTypes, id : 1..2, operation : MessageOperations,
                  index : RemoteIndexes] :
        message.index = 0
        \/ (message.operation = "navigate" /\ message.id = 1)}

RECURSIVE DeliverCarousel(_, _, _)
\* the subscribers of "cmp.panelcontainer" run one after the other
DeliverCarousel(w, todo, message) ==
    IF todo = {}
    THEN w
    ELSE LET c == Min(todo)
         IN  DeliverCarousel(
                 IF w.car[c].subscribed THEN onCarouselMessage(w, c, message) ELSE w,
                 todo \ {c}, message)

CarouselMessage(message) ==
    /\ page.granite
    /\ \E c \in DOMAIN carousel : carousel[c].subscribed
    /\ Commit(DeliverCarousel(Begin, DOMAIN carousel, message))

Next ==
    \/ \E c \in DOMAIN carousel : Construct(c)
    \/ \E c \in DOMAIN carousel : PreviousClick(c)
    \/ \E c \in DOMAIN carousel : NextClick(c)
    \/ \E c \in DOMAIN carousel, i \in 0..MaxItems : IndicatorClick(c, i)
    \/ \E c \in DOMAIN carousel : PauseClick(c)
    \/ \E c \in DOMAIN carousel : PlayClick(c)
    \/ \E c \in DOMAIN carousel, k \in KeyCodes, t \in KeyTargets : KeyDown(c, k, t)
    \/ \E c \in DOMAIN carousel : MouseEnter(c)
    \/ \E c \in DOMAIN carousel : MouseLeave(c)
    \/ \E c \in DOMAIN carousel, id \in 1..MaxTimers, f \in BOOLEAN : TimerTick(c, id, f)
    \/ VisibilityChange
    \/ \E message \in Messages : CarouselMessage(message)

Spec == Init /\ [][Next]_vars

(***************************************************************************)
(* Claims about the Carousel (specification Spec).                         *)
(***************************************************************************)
\* the instances whose init ran and that have at least one item
Constructed(c) == carousel[c].instances > 0

Items(c) == carousel[c].elements.item

ValidIndex(c, i) == i \in 0..(Items(c) - 1)

\* C2: in every reachable state of a constructed Carousel with N >= 1 items
\* (N = 1 included), activeIndex is an integer with 0 <= activeIndex < N.
C2_ActiveIndexInRange ==
    \A c \in DOMAIN carousel :
        (Constructed(c) /\ Items(c) >= 1) => ValidIndex(c, carousel[c].active)

RECURSIVE NavigateNextTimes(_, _, _)
\* navigate(getNextIndex()) applied k times
NavigateNextTimes(w, c, k) ==
    IF k = 0 THEN w
    ELSE NavigateNextTimes(navigate(w, c, getNextIndex(w, c)), c, k - 1)

RECURSIVE NavigatePreviousTimes(_, _, _)
\* navigate(getPreviousIndex()) applied k times
NavigatePreviousTimes(w, c, k) ==
    IF k = 0 THEN w
    ELSE NavigatePreviousTimes(navigate(w, c, getPreviousIndex(w, c)), c, k - 1)

\* C3: for every N >= 1 and every starting activeIndex in [0, N), N times
\* navigate(getNextIndex()) brings activeIndex back to where it started, and
\* so do N times navigate(getPreviousIndex()).
C3_NextPreviousCycle ==
    \A c \in DOMAIN carousel :
        (carousel[c].bound /\ Items(c) >= 1 /\ ValidIndex(c, carousel[c].active))
        => /\ NavigateNextTimes(Begin, c, Items(c)).car[c].active = carousel[c].active
           /\ NavigatePreviousTimes(Begin, c, Items(c)).car[c].active
                  = carousel[c].active

\* C7: whenever pausedFlag is true, no autoplay timer of the instance is live
\* (so no timer-driven navigation can happen until the next play).
C7_PausedNoTimer ==
    \A c \in DOMAIN carousel : carousel[c].paused => carousel[c].timers = {}

\* a paused autoplay Carousel that was navigated by hand away from item 0
C7_Witness ==
    \E c \in DOMAIN carousel :
        /\ carousel[c].paused /\ carousel[c].properties.autoplay
        /\ carousel[c].navigatedBy = "manual" /\ carousel[c].active = 1

\* C8: with autoplay enabled, not paused and N >= 2 items, the first timer
\* tick after a manual navigation to index k that fires while the page is
\* visible navigates to (k+1) mod N.
C8_TickAfterManualAdvances ==
    [][\A c \in DOMAIN carousel, id \in 1..MaxTimers, f \in BOOLEAN :
          ( /\ TimerTick(c, id, f)
            /\ ~page.hidden
            /\ carousel[c].properties.autoplay /\ ~carousel[c].paused
            /\ Items(c) >= 2
            /\ carousel[c].navigatedBy = "manual"
            /\ ValidIndex(c, carousel[c].active) )
          => carousel'[c].active = (carousel[c].active + 1) % Items(c)]_vars

\* C9: every instance has at most one live autoplay timer, and it is the
\* one whose handle the instance stores.
C9_AtMostOneTimer ==
    \A c \in DOMAIN carousel :
        /\ Cardinality(carousel[c].timers) <= 1
        /\ carousel[c].timers \subseteq {carousel[c].autoplayIntervalId}

\* a timer is live after it was rescheduled by a manual navigation and a tick
C9_Witness ==
    \E c \in DOMAIN carousel :
        /\ carousel[c].timers # {} /\ carousel[c].navigatedBy = "timer"
        /\ carousel[c].active = 2 /\ carousel[c].hovered

(***************************************************************************)
(* Accordion.  The instance record a holds the markup (m), the             *)
(* data-cmp-expanded attributes of the items (expanded), the classes and   *)
(* ARIA attributes of buttons and panels, and the fields of `that`.        *)
(* After init the item, button and panel roles are arrays; an array made   *)
(* from a missing role holds undefined, so element i of a role exists      *)
(* when the markup has more than i hooks of it.                            *)
(***************************************************************************)
HasElement(n, i) == ~IsNaN(i) /\ i >= 0 /\ i < n

\* the length of a role once init made it an array
ArrayLength(n) == IF n >= 1 THEN n ELSE 1

AccordionThrow(a) == [a EXCEPT !.threw = TRUE]

\* Accordion setupProperties with the option schema of lines 749-764
setupAccordionProperties(options) ==
    [singleExpansion |-> IF options.singleExpansion # Absent
                         THEN transformFlag(options.singleExpansion) ELSE FALSE]

readAccordionData(m) == [singleExpansion |-> m.dataSingleExpansion]

getItemExpanded(a, i) == i \in a.expanded

\* expandItem: the button first, then the panel
expandItem(a, i) ==
    LET a1 == [a EXCEPT !.buttonExpanded = @ \cup {i}]
        a2 == [a1 EXCEPT !.panelExpanded = @ \cup {i}, !.panelHidden = @ \ {i}]
    IN  IF ~HasElement(a.elements.button, i)
        THEN AccordionThrow(a)
        ELSE IF ~HasElement(a.elements.panel, i)
        THEN AccordionThrow(a1)
        ELSE IF a.properties.singleExpansion
        THEN [a2 EXCEPT !.buttonDisabled = @ \cup {i}]
        ELSE a2

collapseItem(a, i) ==
    LET a1 == [a EXCEPT !.buttonDisabled = @ \ {i}, !.buttonExpanded = @ \ {i}]
    IN  IF ~HasElement(a.elements.button, i)
        THEN AccordionThrow(a)
        ELSE IF ~HasElement(a.elements.panel, i)
        THEN AccordionThrow(a1)
        ELSE [a1 EXCEPT !.panelHidden = @ \cup {i}, !.panelExpanded = @ \ {i}]

refreshItem(a, i) ==
    IF getItemExpanded(a, i) THEN expandItem(a, i) ELSE collapseItem(a, i)

\* setItemExpanded that changes the attribute and refreshes nothing
setItemExpandedNoRefresh(a, i, expanded) ==
    [a EXCEPT !.expanded = IF expanded THEN @ \cup {i} ELSE @ \ {i}]

setItemExpanded(a, i, expanded) ==
    refreshItem([a EXCEPT !.expanded = IF expanded THEN @ \cup {i} ELSE @ \ {i}], i)

RECURSIVE refreshItemsFrom(_, _)
refreshItemsFrom(a, i) ==
    IF i >= a.elements.item \/ a.threw
    THEN a
    ELSE refreshItemsFrom(refreshItem(a, i), i + 1)

refreshItems(a) == refreshItemsFrom(a, 0)

\* getExpandedItems without the test of the attribute
getExpandedItemsAll(a) == 0..(a.elements.item - 1)

\* the items carrying data-cmp-expanded, in the order of the item list
getExpandedItems(a) == {i \in 0..(a.elements.item - 1) : getItemExpanded(a, i)}

RECURSIVE collapseOthersFrom(_, _, _)
\* the loop of toggle in single expansion mode
collapseOthersFrom(a, index, i) ==
    IF i >= a.elements.item \/ a.threw
    THEN a
    ELSE collapseOthersFrom(
             IF i # index /\ getItemExpanded(a, i)
             THEN setItemExpanded(a, i, FALSE) ELSE a,
             index, i + 1)

\* toggle that only opens the item, leaving the others as they are
toggleKeepOthers(a, index) ==
    IF ~HasElement(a.elements.item, index)
    THEN a
    ELSE IF a.properties.singleExpansion
    THEN setItemExpanded(a, index, TRUE)
    ELSE setItemExpanded(a, index, ~getItemExpanded(a, index))

\* toggle that treats every Accordion as in single expansion mode
toggleAlwaysSingle(a, index) ==
    LET others == collapseOthersFrom(a, index, 0)
    IN  IF ~HasElement(a.elements.item, index)
        THEN a
        ELSE IF others.threw THEN others ELSE setItemExpanded(others, index, TRUE)

\* toggle that in single expansion mode flips the item after collapsing
\* the others
toggleFlipInSingle(a, index) ==
    LET others == collapseOthersFrom(a, index, 0)
    IN  IF ~HasElement(a.elements.item, index)
        THEN a
        ELSE IF others.threw
        THEN others
        ELSE setItemExpanded(others, index, ~getItemExpanded(a, index))

\* toggle without the test that the item exists
toggleUnguarded(a, index) ==
    LET others == collapseOthersFrom(a, index, 0)
    IN  IF a.properties.singleExpansion
        THEN IF others.threw THEN others ELSE setItemExpanded(others, index, TRUE)
        ELSE setItemExpanded(a, index, ~getItemExpanded(a, index))

toggle(a, index) ==
    LET others == collapseOthersFrom(a, index, 0)
    IN  IF ~HasElement(a.elements.item, index)
        THEN a
        ELSE IF a.properties.singleExpansion
        THEN IF others.threw THEN others ELSE setItemExpanded(others, index, TRUE)
        ELSE setItemExpanded(a, index, ~getItemExpanded(a, index))

focusButton(a, index) ==
    IF HasElement(a.elements.button, index)
    THEN [a EXCEPT !.focus = index]
    ELSE AccordionThrow(a)

\* onButtonKeyDown whose END case focuses the first button
onButtonKeyDownEndFirst(a, keyCode, index) ==
    LET lastIndex == ArrayLength(a.elements.button) - 1
        toggled == toggle(a, index)
    IN  IF keyCode \in {ARROW_LEFT, ARROW_UP}
        THEN IF index > 0 THEN focusButton(a, index - 1) ELSE a
        ELSE IF keyCode \in {ARROW_RIGHT, ARROW_DOWN}
        THEN IF index < lastIndex THEN focusButton(a, index + 1) ELSE a
        ELSE IF keyCode \in {HOME, END}
        THEN focusButton(a, 0)
        ELSE IF keyCode \in {ENTER, SPACE}
        THEN IF toggled.threw THEN toggled ELSE focusButton(toggled, index)
        ELSE a

onButtonKeyDown(a, keyCode, index) ==
    LET lastIndex == ArrayLength(a.elements.button) - 1
        toggled == toggle(a, index)
    IN  IF keyCode \in {ARROW_LEFT, ARROW_UP}
        THEN IF index > 0 THEN focusButton(a, index - 1) ELSE a
        ELSE IF keyCode \in {ARROW_RIGHT, ARROW_DOWN}
        THEN IF index < lastIndex THEN focusButton(a, index + 1) ELSE a
        ELSE IF keyCode = HOME
        THEN focusButton(a, 0)
        ELSE IF keyCode = END
        THEN focusButton(a, lastIndex)
        ELSE IF keyCode \in {ENTER, SPACE}
        THEN IF toggled.threw THEN toggled ELSE focusButton(toggled, index)
        ELSE a

onButtonClick(a, index) ==
    LET toggled == toggle(a, index)
    IN  IF toggled.threw THEN toggled ELSE focusButton(toggled, index)

\* the handler of "cmp.panelcontainer" requests without the test of the id
onAccordionMessageAnyId(a, message) ==
    LET singleExpansion == a.properties.singleExpansion
        toggled == toggle([a EXCEPT !.properties.singleExpansion = TRUE],
                          message.index)
    IN  IF message.type = "cmp-accordion" /\ message.operation = "navigate"
        THEN IF toggled.threw
             THEN toggled
             ELSE [toggled EXCEPT !.properties.singleExpansion = singleExpansion]
        ELSE a

\* the handler of "cmp.panelcontainer" requests that toggles in the
\* configured mode
onAccordionMessageConfiguredMode(a, message) ==
    IF message.type = "cmp-accordion" /\ message.id = 1
       /\ message.operation = "navigate"
    THEN toggle(a, message.index)
    ELSE a

\* the handler of "cmp.panelcontainer" requests; the root carries
\* data-cmp-panelcontainer-id = 1
onAccordionMessage(a, message) ==
    LET singleExpansion == a.properties.singleExpansion
        toggled == toggle([a EXCEPT !.properties.singleExpansion = TRUE],
                          message.index)
    IN  IF message.type = "cmp-accordion" /\ message.id = 1
           /\ message.operation = "navigate"
        THEN IF toggled.threw
             THEN toggled
             ELSE [toggled EXCEPT !.properties.singleExpansion = singleExpansion]
        ELSE a

\* the index init opens when several items are annotated as expanded
initToggleIndex(expandedItems) == Cardinality(expandedItems) - 1

\* Accordion.init
AccordionInit(a, granite) ==
    LET m == a.m
        a1 == [a EXCEPT !.is = FALSE,
                        !.instances = @ + 1,
                        !.properties = setupAccordionProperties(readAccordionData(m)),
                        !.elements = [item |-> m.item, button |-> m.button,
                                      panel |-> m.panel]]
        expandedItems == getExpandedItems(a1)
        a2 == IF ~a1.properties.singleExpansion
              THEN a1
              ELSE IF Cardinality(expandedItems) = 0
              THEN toggle(a1, 0)
              ELSE IF Cardinality(expandedItems) > 1
              THEN toggle(a1, initToggleIndex(expandedItems))
              ELSE a1
        a3 == refreshItems(a2)
        a4 == [a3 EXCEPT !.bound = TRUE]
    IN  IF ~IsDefined(m.item)
        THEN a1
        ELSE IF a2.threw
        THEN a2
        ELSE IF a3.threw
        THEN a3
        ELSE IF granite
        THEN [a4 EXCEPT !.subscribed = TRUE]
        ELSE a4

(***************************************************************************)
(* Specification SpecAccordion: one Accordion instance in a document.      *)
(***************************************************************************)
\* the markup of an Accordion root: the item hooks, each item with its
\* button and its panel hook, and data-cmp-single-expansion
AccordionMarkups ==
    {m \in [item : 0..MaxPanels, button : 0..MaxPanels, panel : 0..MaxPanels,
            dataSingleExpansion : {Absent, ""}] :
        m.button = m.item /\ m.panel = m.item}

\* a root that no Accordion was constructed for yet; annotated are the items
\* the markup renders with data-cmp-expanded
UnconstructedAccordion(m, annotated) ==
    [m |-> m, expanded |-> annotated, is |-> TRUE, instances |-> 0,
     properties |-> [singleExpansion |-> FALSE],
     elements |-> [item |-> 0, button |-> 0, panel |-> 0],
     buttonExpanded |-> {}, buttonDisabled |-> {},
     panelExpanded |-> {}, panelHidden |-> {},
     bound |-> FALSE, subscribed |-> FALSE, focus |-> -1, threw |-> FALSE,
     annotated |-> annotated, last |-> "none"]

InitAccordion ==
    /\ \E m \in AccordionMarkups :
           \E annotated \in SUBSET (0..(m.item - 1)) :
               accordion = UnconstructedAccordion(m, annotated)
    /\ page \in [hidden : {FALSE}, granite : BOOLEAN]
    /\ carousel = IdleCarousel
    /\ dom = IdleDom

\* a handler starts with no error raised; last names the handler (history)
BeginAccordion(handler) == [accordion EXCEPT !.threw = FALSE, !.last = handler]

CommitAccordion(a) ==
    /\ accordion' = a
    /\ UNCHANGED <<carousel, page, dom>>

\* new Accordion({element, options}) on a root found by its marker
ConstructAccordion ==
    /\ accordion.is
    /\ CommitAccordion(AccordionInit(BeginAccordion("init"), page.granite))

ButtonClick(i) ==
    /\ accordion.bound /\ HasElement(accordion.elements.button, i)
    /\ CommitAccordion(onButtonClick(BeginAccordion("click"), i))

\* History: the key of a keydown, as far as the claims tell keys apart
KeyLabel(a, keyCode) ==
    IF keyCode = END
    THEN "keydown end"
    ELSE IF keyCode = ENTER /\ a.last = "keydown end"
    THEN "keydown enter after end"
    ELSE "keydown"

\* a keydown on the button that has the focus
ButtonKeyDown(keyCode) ==
    /\ accordion.bound /\ HasElement(accordion.elements.button, accordion.focus)
    /\ CommitAccordion(onButtonKeyDown(
           BeginAccordion(KeyLabel(accordion, keyCode)), keyCode, accordion.focus))

\* the user moves the focus to a button (Tab, pointer)
UserFocus(i) ==
    /\ HasElement(accordion.m.button, i) /\ accordion.focus # i
    /\ CommitAccordion([BeginAccordion("focus") EXCEPT !.focus = i])

\* History: what the handler of the Accordion makes of a request: it is
\* not addressed to this Accordion, or it names an index without an item,
\* or it names an item.
MessageLabel(a, message) ==
    IF message.type = "cmp-accordion" /\ message.id = 1
       /\ message.operation = "navigate"
    THEN IF HasElement(a.elements.item, message.index)
         THEN "message" ELSE "message without item"
    ELSE "message ignored"

AccordionMessage(message) ==
    /\ page.granite /\ accordion.subscribed
    /\ CommitAccordion(onAccordionMessage(
           BeginAccordion(MessageLabel(accordion, message)), message))

NextAccordion ==
    \/ ConstructAccordion
    \/ \E i \in 0..MaxPanels : ButtonClick(i)
    \/ \E k \in KeyCodes : ButtonKeyDown(k)
    \/ \E i \in 0..MaxPanels : UserFocus(i)
    \/ \E message \in Messages : AccordionMessage(message)

SpecAccordion == InitAccordion /\ [][NextAccordion]_vars

(***************************************************************************)
(* Claims about the Accordion (specification SpecAccordion).               *)
(***************************************************************************)
\* init ran to its end on an Accordion with items
AccordionReady == accordion.instances > 0 /\ accordion.elements.item >= 1

SingleExpansionMode == accordion.m.dataSingleExpansion # Absent

\* C4: in an Accordion configured with single-expansion mode, after init and
\* after every toggle (click, Enter/Space, remote navigate) at most one item
\* carries the expanded state.
C4_SingleExpansionAtMostOne ==
    (AccordionReady /\ SingleExpansionMode) => Cardinality(accordion.expanded) <= 1

\* a single-expansion Accordion whose markup annotated several items and
\* that has since been toggled to another item
C4_Witness ==
    /\ AccordionReady /\ SingleExpansionMode /\ accordion.bound
    /\ Cardinality(accordion.annotated) >= 2
    /\ accordion.expanded = {0} /\ accordion.focus = 0

\* C5: init in single-expansion mode with more than one item annotated as
\* expanded leaves exactly the last annotated item (the highest index among
\* them) expanded.  Stated on the state init leaves.
C5_InitKeepsLastAnnotated ==
    ( /\ AccordionReady /\ SingleExpansionMode
      /\ accordion.last = "init"
      /\ Cardinality(accordion.annotated) > 1 )
    => \E last \in accordion.annotated :
           /\ \A j \in accordion.annotated : j <= last
           /\ accordion.expanded = {last}

\* C6: init in single-expansion mode with no item annotated as expanded and
\* N >= 1 items leaves exactly item 0 expanded.
C6_InitExpandsFirst ==
    ( /\ AccordionReady /\ SingleExpansionMode
      /\ accordion.last = "init"
      /\ accordion.annotated = {} )
    => accordion.expanded = {0}

\* init has run on a single-expansion Accordion of several items, none of
\* them annotated
C6_Witness ==
    /\ AccordionReady /\ SingleExpansionMode /\ accordion.last = "init"
    /\ accordion.annotated = {} /\ accordion.elements.item >= 2
    /\ accordion.bound /\ accordion.expanded = {0}

(***************************************************************************)
(* The registrar: onDocumentReady of the Carousel (lines 610-646) and of   *)
(* the Accordion (lines 1170-1206), each with its MutationObserver.        *)
(*                                                                         *)
(* The document is a forest of nodes: parentOf gives the shape of the      *)
(* fragments, body the top nodes of the fragments that are children of     *)
(* <body> (kept in the order of their numbers: a fragment is inserted      *)
(* before its successor).  A widget's init is seen from outside: it strips *)
(* the marker, makes an instance, and raises a TypeError on markup it      *)
(* cannot handle (an item without its indicator, lines 407 and 421).       *)
(***************************************************************************)
Nodes == 1..MaxNodes

Kinds == <<"carousel", "accordion">>

\* the children of node n (0 is a fragment's top), in document order
ChildrenOf(d, n) == {c \in Nodes : d.parentOf[c] = n}

RECURSIVE PreorderOf(_, _)
\* the nodes below the nodes of `todo`, those included, in document order
PreorderOf(d, todo) ==
    IF todo = {}
    THEN <<>>
    ELSE LET n == Min(todo)
         IN  <<n>> \o PreorderOf(d, ChildrenOf(d, n)) \o PreorderOf(d, todo \ {n})

\* node.querySelectorAll('[data-cmp-is="kind"]'): the descendants of the node
\* that carry the marker, the node itself left out
querySelectorAll(d, n, kind) ==
    LET Marked(x) == d.is[x] = kind
    IN  SelectSeq(PreorderOf(d, ChildrenOf(d, n)), Marked)

\* document.querySelectorAll('[data-cmp-is="kind"]')
documentQuerySelectorAll(d, kind) ==
    LET Marked(x) == d.is[x] = kind
    IN  SelectSeq(PreorderOf(d, d.body), Marked)

\* new Carousel / new Accordion that leaves the marker on the root
newWidgetKeepMarker(d, n) ==
    [d EXCEPT !.instances[n] = @ + 1,
              !.threw = d.malformed[n]]

\* new Carousel / new Accordion on element n: init removes data-cmp-is first
newWidget(d, n) ==
    [d EXCEPT !.is[n] = "none",
              !.instances[n] = @ + 1,
              !.threw = d.malformed[n]]

RECURSIVE constructAll(_, _)
\* a loop constructing the elements of a list; a TypeError ends it
constructAll(d, elements) ==
    IF elements = <<>> \/ d.threw
    THEN d
    ELSE constructAll(newWidget(d, Head(elements)), Tail(elements))

\* the nodes of the fragments whose tops are in `tops`
Subtrees(d, tops) ==
    {PreorderOf(d, tops)[k] : k \in 1..Len(PreorderOf(d, tops))}

\* History: a query for `kind` has gone over the nodes of `scope`.  passes[n]
\* counts the queries that went over a node authored as a root of that kind,
\* marker still on it or not; 2 stands for two or more.
Scanned(d, scope, kind) ==
    [d EXCEPT !.passes = [n \in Nodes |->
                             IF n \in scope /\ d.marked[n] = kind
                             THEN Min({@[n] + 1, 2})
                             ELSE @[n]]]

\* onDocumentReady of one kind: the startup scan, then observer.observe
onDocumentReady(d, kind) ==
    LET d1 == constructAll(Scanned([d EXCEPT !.threw = FALSE],
                                   Subtrees(d, d.body), kind),
                           documentQuerySelectorAll(d, kind))
    IN  IF d1.threw THEN d1 ELSE [d1 EXCEPT !.observing = @ \cup {kind}]

RECURSIVE forEachAddedNode(_, _, _)
\* nodesArray.forEach: the list of marked descendants is taken when the
\* added node's turn comes
forEachAddedNode(d, addedNodes, kind) ==
    IF addedNodes = <<>> \/ d.threw
    THEN d
    ELSE forEachAddedNode(
             IF d.nodeType[Head(addedNodes)] = "element"
             THEN constructAll(
                      Scanned(d, Subtrees(d, ChildrenOf(d, Head(addedNodes))),
                              kind),
                      querySelectorAll(d, Head(addedNodes), kind))
             ELSE d,
             Tail(addedNodes), kind)

RECURSIVE forEachMutation(_, _, _)
forEachMutation(d, mutations, kind) ==
    IF mutations = <<>> \/ d.threw
    THEN d
    ELSE forEachMutation(forEachAddedNode(d, Head(mutations), kind),
                         Tail(mutations), kind)

\* the callback of one kind's MutationObserver
observerCallback(d, mutations, kind) ==
    IF kind \in d.observing
    THEN forEachMutation([d EXCEPT !.threw = FALSE], mutations, kind)
    ELSE d

(***************************************************************************)
(* Specification SpecRegistrar.                                            *)
(***************************************************************************)
InDocument(d, n) == n \in Subtrees(d, d.body)

NodeKinds ==
    {[type |-> "element", is |-> "none", malformed |-> FALSE],
     [type |-> "text", is |-> "none", malformed |-> FALSE],
     [type |-> "element", is |-> "carousel", malformed |-> FALSE],
     [type |-> "element", is |-> "carousel", malformed |-> TRUE],
     [type |-> "element", is |-> "accordion", malformed |-> FALSE]}

InitRegistrar ==
    /\ \E kinds \in [Nodes -> NodeKinds] :
       \E parentOf \in [Nodes -> 0..MaxNodes] :
           /\ \A n \in Nodes : parentOf[n] < n
           \* a text node stands alone: inside an element no query meets it
           /\ \A n \in Nodes : kinds[n].type = "text" =>
                  parentOf[n] = 0 /\ \A c \in Nodes : parentOf[c] # n
           /\ dom = [parentOf |-> parentOf,
                     nodeType |-> [n \in Nodes |-> kinds[n].type],
                     malformed |-> [n \in Nodes |-> kinds[n].malformed],
                     marked |-> [n \in Nodes |-> kinds[n].is],
                     is |-> [n \in Nodes |-> kinds[n].is],
                     instances |-> [n \in Nodes |-> 0],
                     body |-> {},
                     started |-> FALSE,
                     observing |-> {},
                     records |-> <<>>,
                     passes |-> [n \in Nodes |-> 0],
                     threw |-> FALSE]
    /\ carousel = IdleCarousel
    /\ accordion = IdleAccordion
    /\ page = [hidden |-> FALSE, granite |-> FALSE]

RECURSIVE childListMutations(_, _)
\* A script task's calls of body.appendChild(n) and body.removeChild(n) on
\* tops of fragments, one after the other: a top outside the document is
\* appended, one inside is removed.  Each call leaves a record, the added
\* nodes in it.
childListMutations(d, tops) ==
    IF tops = <<>>
    THEN d
    ELSE childListMutations(
             IF Head(tops) \in d.body
             THEN [d EXCEPT !.body = @ \ {Head(tops)},
                            !.records = Append(@, <<>>)]
             ELSE [d EXCEPT !.body = @ \cup {Head(tops)},
                            !.records = Append(@, <<Head(tops)>>)],
             Tail(tops))

\* the sequences of at most n elements of S, the empty one left out
SeqsUpTo(S, n) == UNION {[1..k -> S] : k \in 1..n}

\* The two onDocumentReady run one after the other: as DOMContentLoaded
\* listeners (loading), where an error in the first does not stop the second,
\* or straight from the script, where an uncaught error ends the script.
DocumentReady(loading) ==
    /\ ~dom.started
    /\ LET d0 == [dom EXCEPT !.started = TRUE]
           d1 == onDocumentReady(d0, Kinds[1])
           d2 == onDocumentReady(d1, Kinds[2])
       IN  dom' = IF d1.threw /\ ~loading
                  THEN d1
                  ELSE [d2 EXCEPT !.threw = d1.threw \/ d2.threw]
    /\ UNCHANGED <<carousel, page, accordion>>

\* A script task changes the children of <body>; when it ends the records
\* are given to the observers that are registered, the Carousel's first.
BodyMutations(tops) ==
    /\ \A k \in 1..Len(tops) : dom.parentOf[tops[k]] = 0
    /\ LET d0 == childListMutations([dom EXCEPT !.threw = FALSE], tops)
           d1 == observerCallback([d0 EXCEPT !.records = <<>>], d0.records,
                                  Kinds[1])
           d2 == observerCallback(d1, d0.records, Kinds[2])
       IN  dom' = [d2 EXCEPT !.threw = d1.threw \/ d2.threw]
    /\ UNCHANGED <<carousel, page, accordion>>

NextRegistrar ==
    \/ \E tops \in SeqsUpTo(Nodes, MaxRecords) : BodyMutations(tops)
    \/ \E loading \in BOOLEAN : DocumentReady(loading)

SpecRegistrar == InitRegistrar /\ [][NextRegistrar]_vars

C10_MarkedElementsConstructed ==
    [][/\ (~dom.started /\ dom'.started) =>
              \A n \in Subtrees(dom, dom.body) :
                  dom.is[n] # "none" => dom'.instances[n] >= 1
       /\ dom.started =>
              \A n \in Subtrees(dom, dom'.body \ dom.body) :
                  dom.is[n] # "none" => dom'.instances[n] >= 1]_vars

(***************************************************************************)
(* Specification SpecRemote: a page of the editor with one Carousel and    *)
(* one Accordion.  Both subscribe to "cmp.panelcontainer" (lines 131 and   *)
(* 829), so every request message reaches the handlers of both.            *)
(***************************************************************************)
\* Carousel markup with every role present, one indicator per item
FullCarouselMarkups ==
    {m \in CarouselMarkups :
        /\ m.item >= 2 /\ m.indicator = m.item
        /\ m.previous /\ m.next /\ m.pause /\ m.play /\ m.indicators
        /\ m.dataAutopauseDisabled = Absent}

InitRemote ==
    /\ \E m \in FullCarouselMarkups : carousel = (1 :> Unconstructed(m, Absent))
    /\ \E m \in AccordionMarkups :
           m.item >= 1 /\ accordion = UnconstructedAccordion(m, {})
    /\ page = [hidden |-> FALSE, granite |-> TRUE]
    /\ dom = IdleDom

\* a request message of the editor frame: the subscribers run one after
\* the other
PanelContainerMessage(message) ==
    /\ page.granite
    /\ accordion.subscribed \/ \E c \in DOMAIN carousel : carousel[c].subscribed
    /\ LET w == DeliverCarousel(Begin, DOMAIN carousel, message)
       IN  /\ Bounded(w)
           /\ carousel' = w.car
    /\ accordion' = IF accordion.subscribed
                    THEN onAccordionMessage(
                             BeginAccordion(MessageLabel(accordion, message)),
                             message)
                    ELSE accordion
    /\ UNCHANGED <<page, dom>>

NextRemote ==
    \/ \E c \in DOMAIN carousel : Construct(c)
    \/ \E c \in DOMAIN carousel : NextClick(c)
    \/ ConstructAccordion
    \/ \E message \in Messages : PanelContainerMessage(message)

SpecRemote == InitRemote /\ [][NextRemote]_vars

\* what a request message may change of a Carousel and of an Accordion
CarouselView(me) ==
    <<me.active, me.paused, me.timers, me.autoplayIntervalId, me.scheduledDelay,
      me.properties, me.itemActive, me.indicatorActive, me.pauseDisabled,
      me.playDisabled>>

AccordionView(a) ==
    <<a.expanded, a.properties, a.buttonExpanded, a.buttonDisabled,
      a.panelExpanded, a.panelHidden, a.focus>>

\* the message is a navigate request for the instance of that type with
\* data-cmp-panelcontainer-id = id
Addresses(message, type, id) ==
    message.type = type /\ message.id = id /\ message.operation = "navigate"

\* C11: a request message whose id is not the instance's, whose type is not
\* the widget kind's or whose operation is not "navigate" changes nothing of
\* that instance: the Carousel keeps activeIndex, pausedFlag, timer and
\* markers, the Accordion its expanded items and its properties.
C11_ForeignMessageNoChange ==
    \A message \in Messages :
        /\ \A c \in DOMAIN carousel :
               (carousel[c].subscribed /\ ~Addresses(message, "cmp-carousel", c))
               => CarouselView(onCarouselMessage(Begin, c, message).car[c])
                      = CarouselView(carousel[c])
        /\ (accordion.subscribed /\ ~Addresses(message, "cmp-accordion", 1))
           => AccordionView(onAccordionMessage(accordion, message))
                  = AccordionView(accordion)

\* the Accordion, with an item open, has just ignored a request while the
\* Carousel has been navigated to item 1
C11_Witness ==
    /\ accordion.last = "message ignored" /\ accordion.expanded # {}
    /\ carousel[1].subscribed /\ carousel[1].active = 1

(***************************************************************************)
(* Further claims about the Carousel (specification Spec).                 *)
(***************************************************************************)
\* C12: for a Carousel with N >= 1 items, navigate(i) with i < 0 or i >= N
\* changes neither activeIndex nor the markers nor the timer and raises no
\* error.
C12_OutOfRangeNoOp ==
    \A c \in DOMAIN carousel :
        (carousel[c].bound /\ Items(c) >= 1)
        => \A i \in -1..MaxActive :
               (i < 0 \/ i >= Items(c))
               => /\ CarouselView(navigate(Begin, c, i).car[c])
                         = CarouselView(carousel[c])
                  /\ ~navigate(Begin, c, i).car[c].threw

\* C13: on a Carousel with at least one item whose init went through,
\* whatever optional roles (previous, next, indicators container, play,
\* pause) the markup lacks, no handler ends in an error.
C13_NoHandlerError ==
    \A c \in DOMAIN carousel :
        (carousel[c].bound /\ Items(c) >= 1) => ~carousel[c].threw

(***************************************************************************)
(* Specification SpecPage: two Carousel roots in one document, the first   *)
(* before the second in document order.  Both have two items and every     *)
(* role; the first may carry data-cmp-left, and their data-cmp-delay       *)
(* differ.                                                                 *)
(***************************************************************************)
PageMarkups == {m \in FullCarouselMarkups : m.item = 2}

InitPage ==
    /\ \E m1 \in PageMarkups, m2 \in PageMarkups, left \in {Absent, "200"} :
           carousel = <<Unconstructed(m1, left),
                        Unconstructed([m2 EXCEPT !.dataDelay = "200"], Absent)>>
    /\ page = [hidden |-> FALSE, granite |-> FALSE]
    /\ accordion = IdleAccordion
    /\ dom = IdleDom

\* the pointer enters a root; the roots are siblings, so it is in at most
\* one of them
PointerEnter(c) ==
    /\ \A o \in DOMAIN carousel : ~carousel[o].hovered
    /\ MouseEnter(c)

NextPage ==
    \/ \E c \in DOMAIN carousel : Construct(c)
    \/ \E c \in DOMAIN carousel : NextClick(c)
    \/ \E c \in DOMAIN carousel : PauseClick(c)
    \/ \E c \in DOMAIN carousel : PlayClick(c)
    \/ \E c \in DOMAIN carousel : PointerEnter(c)
    \/ \E c \in DOMAIN carousel : MouseLeave(c)
    \/ \E c \in DOMAIN carousel, id \in 1..MaxTimers : TimerTick(c, id, FALSE)

SpecPage == InitPage /\ [][NextPage]_vars

\* an event of the user or a timer tick is delivered to instance c
EventOn(c) ==
    \/ NextClick(c)
    \/ PauseClick(c)
    \/ PlayClick(c)
    \/ PointerEnter(c)
    \/ MouseLeave(c)
    \/ \E id \in 1..MaxTimers : TimerTick(c, id, FALSE)

\* C14: with two Carousel instances in the document, an event delivered to
\* one of them (click, mouseenter, mouseleave, timer tick) leaves
\* activeIndex, pausedFlag, timer and delay of the other as they are.
C14_OtherInstanceUntouched ==
    [][\A c \in DOMAIN carousel :
          (EventOn(c) /\ \A o \in DOMAIN carousel : Constructed(o))
          => \A o \in DOMAIN carousel \ {c} :
                 CarouselView(carousel'[o]) = CarouselView(carousel[o])]_vars

\* C15: when init returns normally on a root with N >= 1 items, the
\* Carousel has activeIndex = 0 and pausedFlag = false, and exactly one item
\* and exactly one indicator carry the active marker, both at index 0.
C15_InitState ==
    [][\A c \in DOMAIN carousel :
          (Construct(c) /\ ~carousel'[c].threw /\ carousel'[c].elements.item >= 1)
          => /\ carousel'[c].active = 0
             /\ carousel'[c].paused = FALSE
             /\ carousel'[c].itemActive = {0}
             /\ carousel'[c].indicatorActive = {0}]_vars

C15_Witness ==
    \E c \in DOMAIN carousel :
        /\ Constructed(c) /\ ~carousel[c].threw /\ Items(c) >= 2
        /\ carousel[c].navigatedBy = "none"
        /\ carousel[c].active = 0 /\ ~carousel[c].paused
        /\ carousel[c].itemActive = {0} /\ carousel[c].indicatorActive = {0}
        /\ carousel[c].timers # {}

(***************************************************************************)
(* Further claims about the Accordion (specification SpecAccordion).       *)
(***************************************************************************)
\* the expanded items after toggle(i) as the mode of the Accordion defines
\* it: i alone in single expansion mode, otherwise i changes side
ExpandedAfterToggle(a, i) ==
    IF a.properties.singleExpansion
    THEN {i}
    ELSE IF i \in a.expanded THEN a.expanded \ {i} ELSE a.expanded \cup {i}

\* C16: in an Accordion with N >= 1 buttons and the focus on one of them,
\* End moves the focus to button N-1 and changes no item, and an Enter that
\* follows toggles item N-1 and no other item and keeps the focus on N-1.
C16_EndThenEnter ==
    (accordion.bound /\ accordion.elements.button >= 1
     /\ HasElement(accordion.elements.button, accordion.focus))
    => LET lastButton == accordion.elements.button - 1
           atEnd == onButtonKeyDown(BeginAccordion("keydown end"), END,
                                    accordion.focus)
           after == onButtonKeyDown(atEnd, ENTER, atEnd.focus)
       IN  /\ ~atEnd.threw /\ atEnd.focus = lastButton
           /\ AccordionView([atEnd EXCEPT !.focus = accordion.focus])
                  = AccordionView(accordion)
           /\ ~after.threw /\ after.focus = lastButton
           /\ after.expanded = ExpandedAfterToggle(accordion, lastButton)
           /\ after.panelExpanded = after.expanded
           /\ after.buttonExpanded = after.expanded

C16_Witness ==
    /\ accordion.last = "keydown enter after end"
    /\ accordion.elements.button >= 3
    /\ accordion.focus = accordion.elements.button - 1
    /\ accordion.expanded = {0, accordion.elements.button - 1}

(***************************************************************************)
(* Claims about the properties of an instance (specification SpecPage).    *)
(***************************************************************************)
\* C17: once init has returned, the properties of a Carousel (autoplay,
\* delay, autopauseDisabled) are the same in every later state, whatever
\* events and timer ticks follow.
C17_PropertiesImmutable ==
    [][\A c \in DOMAIN carousel :
          Constructed(c) => carousel'[c].properties = carousel[c].properties]_vars

(***************************************************************************)
(* Claims about toggle (specification SpecAccordion).                      *)
(***************************************************************************)
\* C18: toggle(i) with an index i that has no item (i < 0, i >= N, or not a
\* number) leaves every item, button and panel as it is and raises no
\* error, called directly or through a remote navigate request.
C18_ToggleWithoutItem ==
    accordion.bound
    => \A i \in RemoteIndexes :
           ~HasElement(accordion.elements.item, i)
           => LET direct == toggle(BeginAccordion("toggle"), i)
                  remote == onAccordionMessage(BeginAccordion("toggle"),
                                [type |-> "cmp-accordion", id |-> 1,
                                 operation |-> "navigate", index |-> i])
              IN  /\ ~direct.threw /\ AccordionView(direct) = AccordionView(accordion)
                  /\ ~remote.threw /\ AccordionView(remote) = AccordionView(accordion)

C18_Witness ==
    /\ accordion.last = "message without item" /\ ~accordion.threw
    /\ accordion.elements.item >= 2
    /\ accordion.expanded = 0..(accordion.elements.item - 1)

(***************************************************************************)
(* Specification SpecOptions: one Carousel root and one Accordion root     *)
(* with well-formed hooks; the data-cmp-* attributes range over absent,    *)
(* empty, and numeric and non-numeric strings.                             *)
(***************************************************************************)
FlagStrings == {Absent, "", "false", "true"}

DelayStrings == {Absent, "", "abc", "0", "12px", "500", "200"}

OptionMarkups ==
    [item : {2}, indicator : {2},
     previous : {TRUE}, next : {TRUE}, pause : {TRUE}, play : {TRUE},
     indicators : {TRUE},
     dataAutoplay : FlagStrings, dataAutopauseDisabled : FlagStrings,
     dataDelay : DelayStrings]

InitOptions ==
    /\ \E m \in OptionMarkups : carousel = (1 :> Unconstructed(m, Absent))
    /\ \E single \in FlagStrings :
           accordion = UnconstructedAccordion(
                           [item |-> 2, button |-> 2, panel |-> 2,
                            dataSingleExpansion |-> single], {})
    /\ page = [hidden |-> FALSE, granite |-> FALSE]
    /\ dom = IdleDom

NextOptions ==
    \/ \E c \in DOMAIN carousel : Construct(c)
    \/ ConstructAccordion

SpecOptions == InitOptions /\ [][NextOptions]_vars

\* the value the claim gives a flag option: true when the attribute is there
FlagOf(raw) == raw # Absent

\* the value the claim gives delay: the parsed number, 5000 without one
DelayOf(raw) ==
    IF raw = Absent \/ IsNaN(parseFloat(raw))
    THEN NumberValue(DefaultDelay)
    ELSE NumberValue(parseFloat(raw))

\* C19: setupProperties gives each option its default when the attribute is
\* absent, transform(raw) when it is present and the transform gives a
\* value, and the default when the transform gives null (a delay that is no
\* number gives 5000); autoplay, autopauseDisabled and singleExpansion are
\* true whenever the attribute is present, also for "" and "false".  Init
\* stores that result (delay is compared when autoplay is off: with autoplay
\* resetAutoplayInterval replaces it within init).
C19_SetupProperties ==
    /\ \A c \in DOMAIN carousel :
           LET m == carousel[c].m
               result == setupProperties(readData(m))
           IN  /\ result.autoplay = FlagOf(m.dataAutoplay)
               /\ result.autopauseDisabled = FlagOf(m.dataAutopauseDisabled)
               /\ result.delay = DelayOf(m.dataDelay)
               /\ Constructed(c)
                  => /\ carousel[c].properties.autoplay = result.autoplay
                     /\ carousel[c].properties.autopauseDisabled
                            = result.autopauseDisabled
                     /\ ~result.autoplay => carousel[c].properties.delay = result.delay
    /\ LET result == setupAccordionProperties(readAccordionData(accordion.m))
       IN  /\ result.singleExpansion = FlagOf(accordion.m.dataSingleExpansion)
           /\ accordion.instances > 0 => accordion.properties = result

C19_Witness ==
    /\ Constructed(1) /\ accordion.instances > 0
    /\ carousel[1].m.dataAutoplay = Absent /\ ~carousel[1].properties.autoplay
    /\ carousel[1].m.dataAutopauseDisabled = "false"
    /\ carousel[1].properties.autopauseDisabled
    /\ carousel[1].m.dataDelay = "abc"
    /\ carousel[1].properties.delay = NumberValue(DefaultDelay)
    /\ accordion.m.dataSingleExpansion = "" /\ accordion.properties.singleExpansion

(***************************************************************************)
(* Claims about hovering (specification Spec).                             *)
(***************************************************************************)
\* C20: while the pointer stays over a Carousel root whose hover-pause is
\* not disabled, no autoplay timer of that instance becomes live, whatever
\* navigation happens during the hover and also when the markup has no
\* pause control (stated for N >= 2 items and steps that raise no error).
C20_NoTimerWhileHovered ==
    [][\A c \in DOMAIN carousel :
          (carousel[c].bound /\ ~carousel[c].properties.autopauseDisabled
           /\ Items(c) >= 2 /\ ~carousel'[c].threw
           /\ carousel[c].hovered /\ carousel'[c].hovered
           /\ carousel[c].timers = {})
          => carousel'[c].timers = {}]_vars

(***************************************************************************)
(* Claims about the active markers (specification Spec).                   *)
(***************************************************************************)
\* C21: in every reachable state of a constructed Carousel with N >= 1
\* items, exactly one item and exactly one indicator carry the active
\* marker, and both are the ones at index activeIndex (stated for markup
\* with N >= 2 items and one indicator per item).
C21_MarkersFollowActive ==
    \A c \in DOMAIN carousel :
        (Constructed(c) /\ Items(c) >= 2 /\ carousel[c].m.indicator = Items(c))
        => /\ carousel[c].itemActive = {carousel[c].active}
           /\ carousel[c].indicatorActive = {carousel[c].active}

(***************************************************************************)
(* Claims about remote navigation of the Accordion (SpecAccordion).        *)
(***************************************************************************)
NavigateRequest(i) ==
    [type |-> "cmp-accordion", id |-> 1, operation |-> "navigate", index |-> i]

\* C22: a matching remote navigate request with a valid index i leaves item
\* i expanded and every other item collapsed, in single and in multi
\* expansion mode and whatever was expanded before; the configured mode is
\* restored.
C22_RemoteNavigateOpensOnly ==
    (accordion.subscribed /\ accordion.bound)
    => \A i \in 0..(accordion.elements.item - 1) :
           LET after == onAccordionMessage(BeginAccordion("message"),
                                           NavigateRequest(i))
           IN  /\ ~after.threw
               /\ after.expanded = {i}
               /\ after.panelExpanded = {i} /\ after.buttonExpanded = {i}
               /\ after.properties = accordion.properties

C22_Witness ==
    /\ accordion.last = "message" /\ ~SingleExpansionMode
    /\ accordion.elements.item >= 3 /\ accordion.expanded = {1}
    /\ accordion.annotated = {0, 2}

\* C23: in every reachable state of an Accordion after init, a button is
\* marked disabled exactly when the configured mode is single expansion and
\* the item of the button is expanded; in multi expansion mode no button is
\* marked disabled.
C23_DisabledOnlyInSingleMode ==
    AccordionReady
    => accordion.buttonDisabled
           = IF SingleExpansionMode THEN accordion.expanded ELSE {}

\* C24: in every reachable state of an Accordion after init, an item
\* carries the expanded attribute if and only if its button is marked
\* expanded and its panel is marked expanded and not hidden.
C24_MarksFollowAttribute ==
    AccordionReady
    => /\ accordion.buttonExpanded = accordion.expanded
       /\ accordion.panelExpanded = accordion.expanded
       /\ accordion.panelHidden
              = (0..(accordion.elements.item - 1)) \ accordion.expanded

C24_Witness ==
    /\ AccordionReady /\ accordion.last = "click" /\ ~accordion.threw
    /\ accordion.elements.item >= 3
    /\ accordion.annotated = {1}
    /\ accordion.expanded = {0, 2} /\ accordion.panelHidden = {1}

(***************************************************************************)
(* Claims about the delay of the autoplay timer (SpecOptions).             *)
(***************************************************************************)
\* C25: whenever an autoplay timer of a Carousel is live, it was scheduled
\* with the delay resolved for that instance: the number its data-cmp-delay
\* parses to, and 5000 when the attribute is absent or no number.
C25_ScheduledWithResolvedDelay ==
    \A c \in DOMAIN carousel :
        carousel[c].timers # {}
        => /\ carousel[c].scheduledDelay.t # "null"
           /\ carousel[c].scheduledDelay.n = DelayOf(carousel[c].m.dataDelay).n

(***************************************************************************)
(* Claims about the play and pause controls (specification Spec).          *)
(***************************************************************************)
\* C26: in every reachable state of a Carousel (init returned and bound its
\* listeners) that has a play and a pause control and at least one item, the
\* pause control is disabled
\* exactly when pausedFlag is true and the play control exactly when it is
\* false.
C26_OneControlEnabled ==
    \A c \in DOMAIN carousel :
        (carousel[c].bound /\ Items(c) >= 1
         /\ carousel[c].elements.pause /\ carousel[c].elements.play)
        => /\ carousel[c].pauseDisabled = carousel[c].paused
           /\ carousel[c].playDisabled = ~carousel[c].paused

C26_Witness ==
    \E c \in DOMAIN carousel :
        /\ carousel[c].bound /\ Items(c) >= 2
        /\ carousel[c].elements.pause /\ carousel[c].elements.play
        /\ carousel[c].paused /\ carousel[c].pauseDisabled
        /\ ~carousel[c].playDisabled /\ carousel[c].active = 1

(***************************************************************************)
(* Claims about toggle in the two modes (specification SpecAccordion).     *)
(***************************************************************************)
\* C27: in multi expansion mode toggle(i) with a valid i flips the expanded
\* state of item i and leaves every other item, button and panel as it is.
C27_ToggleFlipsOne ==
    (AccordionReady /\ ~accordion.properties.singleExpansion)
    => \A i \in 0..(accordion.elements.item - 1) :
           LET after == toggle(BeginAccordion("toggle"), i)
           IN  /\ ~after.threw
               /\ (i \in after.expanded) = (i \notin accordion.expanded)
               /\ after.expanded \ {i} = accordion.expanded \ {i}
               /\ after.buttonExpanded \ {i} = accordion.buttonExpanded \ {i}
               /\ after.panelExpanded \ {i} = accordion.panelExpanded \ {i}
               /\ after.panelHidden \ {i} = accordion.panelHidden \ {i}
               /\ after.buttonDisabled \ {i} = accordion.buttonDisabled \ {i}

C27_Witness ==
    /\ AccordionReady /\ ~SingleExpansionMode /\ accordion.last = "click"
    /\ accordion.elements.item >= 3 /\ accordion.annotated = {0, 1, 2}
    /\ accordion.expanded = {0, 2}

\* C28: in single expansion mode toggle(i) with a valid i leaves item i
\* alone expanded from any state, and a second toggle(i) changes nothing.
C28_ToggleSingleIdempotent ==
    (AccordionReady /\ accordion.properties.singleExpansion)
    => \A i \in 0..(accordion.elements.item - 1) :
           LET once == toggle(BeginAccordion("toggle"), i)
               twice == toggle(once, i)
           IN  /\ ~once.threw /\ once.expanded = {i}
               /\ once.buttonExpanded = {i} /\ once.panelExpanded = {i}
               /\ twice = once

C28_Witness ==
    /\ AccordionReady /\ SingleExpansionMode /\ accordion.last = "click"
    /\ accordion.elements.item >= 3 /\ accordion.annotated = {0}
    /\ accordion.expanded = {2} /\ accordion.buttonDisabled = {2}

(***************************************************************************)
(* Claims about the keys of the Carousel (specification Spec).             *)
(***************************************************************************)
\* the item the claim makes a key navigate to from item i of N
KeyDestination(keyCode, i, N) ==
    IF keyCode \in {ARROW_LEFT, ARROW_UP} THEN i - 1
    ELSE IF keyCode \in {ARROW_RIGHT, ARROW_DOWN} THEN i + 1
    ELSE IF keyCode = HOME THEN 0
    ELSE N - 1

\* C29: a keydown on the root of a Carousel with N items and activeIndex i
\* leaves activeIndex at i-1 for left/up, i+1 for right/down, 0 for Home and
\* N-1 for End, also when the number of indicators differs from N (stated
\* for N >= 2, at least two indicators and a destination within 0..N-1).
C29_KeysNavigate ==
    \A c \in DOMAIN carousel :
        (/\ carousel[c].bound
         /\ Items(c) >= 2 /\ carousel[c].m.indicator >= 2
         /\ ValidIndex(c, carousel[c].active))
        => \A keyCode \in KeyCodes \ {SPACE, ENTER} :
               ValidIndex(c, KeyDestination(keyCode, carousel[c].active, Items(c)))
               => onKeyDown(Begin, c, keyCode, "other").car[c].active
                      = KeyDestination(keyCode, carousel[c].active, Items(c))

\* C30: a Space keydown on a Carousel flips pausedFlag if and only if
\* autoplay is enabled and the target is neither the previous nor the next
\* control; in every other case pausedFlag and the timer stay as they are.
C30_SpaceTogglesPause ==
    \A c \in DOMAIN carousel :
        carousel[c].bound
        => \A target \in KeyTargets :
               (target = "other" \/ carousel[c].m[target])
               => LET after == onKeyDown(Begin, c, SPACE, target).car[c]
                      flips == carousel[c].properties.autoplay
                               /\ target \notin {"previous", "next"}
                  IN  /\ (after.paused # carousel[c].paused) = flips
                      /\ ~flips => /\ after.timers = carousel[c].timers
                                   /\ after.autoplayIntervalId
                                          = carousel[c].autoplayIntervalId

\* paused without a pause control in the document: only Space sets it
C30_Witness ==
    \E c \in DOMAIN carousel :
        /\ carousel[c].bound /\ carousel[c].properties.autoplay
        /\ ~carousel[c].m.pause /\ carousel[c].m.next
        /\ carousel[c].paused /\ carousel[c].timers = {}
        /\ Items(c) >= 2

(***************************************************************************)
(* Specification SpecAutoplay: one autoplaying Carousel with N >= 2 items  *)
(* and one indicator per item that is left alone: nobody pauses, hovers or *)
(* hides the page, and the only events are the ticks of its interval.      *)
(* setInterval keeps firing, so the ticks are weakly fair.                 *)
(***************************************************************************)
AutoplayMarkups ==
    {m \in CarouselMarkups :
        m.item >= 2 /\ m.indicator = m.item /\ m.dataAutoplay # Absent}

InitAutoplay ==
    /\ \E m \in AutoplayMarkups : carousel = (1 :> Unconstructed(m, Absent))
    /\ page = [hidden |-> FALSE, granite |-> FALSE]
    /\ accordion = IdleAccordion
    /\ dom = IdleDom

Tick == \E c \in DOMAIN carousel, id \in 1..MaxTimers, f \in BOOLEAN : TimerTick(c, id, f)

NextAutoplay ==
    \/ \E c \in DOMAIN carousel : Construct(c)
    \/ Tick

SpecAutoplay ==
    /\ InitAutoplay /\ [][NextAutoplay]_vars
    /\ WF_vars(\E c \in DOMAIN carousel : Construct(c))
    /\ WF_vars(Tick)

\* C31: an autoplaying Carousel with N >= 2 items that stays un-paused,
\* un-hovered and visible advances to the next index with every tick of its
\* interval, so that it shows every item again and again.  Ticks are the
\* only steps here: a state whose tick does not advance is never left, and
\* staying there forever is a fair behaviour in which nothing advances.
C31_TickAdvances ==
    \A c \in DOMAIN carousel :
        Constructed(c)
        => /\ carousel[c].timers # {}
           /\ intervalCallback(BeginEvent("timer"), c, FALSE).car[c].active
                  = (carousel[c].active + 1) % Items(c)

(***************************************************************************)
(* Claims about a Carousel without items (specification Spec).             *)
(***************************************************************************)
\* C32: a matching remote navigate request sent to a Carousel whose markup
\* holds no item raises no error and leaves the instance as it is.
C32_NavigateWithoutItems ==
    \A c \in DOMAIN carousel :
        (carousel[c].subscribed /\ ~IsDefined(Items(c)))
        => \A i \in RemoteIndexes :
               LET after == onCarouselMessage(Begin, c,
                                [type |-> "cmp-carousel", id |-> c,
                                 operation |-> "navigate", index |-> i]).car[c]
               IN  /\ ~after.threw
                   /\ CarouselView(after) = CarouselView(carousel[c])


(***************************************************************************)
(* Specification SpecNested: an Accordion (root 1) with a second Accordion *)
(* (root 2) nested in it.  dom holds the document: the hook elements in    *)
(* document order, each with the role its hook attribute names and the     *)
(* nearest root above it, and the item hooks carrying data-cmp-expanded.   *)
(* accordion[k] is the instance constructed on root k; its elements field  *)
(* counts the hooks of each role in cached, the result of cacheElements,   *)
(* and item i of the instance is the hook cached.item.at[i + 1].           *)
(***************************************************************************)
MaxUnits == 3

\* the hooks of one Accordion item, in the order of the markup
Roles == <<"item", "button", "panel">>

\* the hooks of a document whose u-th item belongs to root units[u]
HooksOf(units) ==
    [p \in 1..(Len(Roles) * Len(units)) |->
        [role |-> Roles[((p - 1) % Len(Roles)) + 1],
         root |-> units[((p - 1) \div Len(Roles)) + 1]]]

\* hook.closest(".cmp-accordion")
closest(doc, hook) == doc.hooks[hook].root

\* wrapper.querySelectorAll("[data-cmp-hook-...]"): the hooks below the
\* wrapper, in document order; root 2 lies below root 1
querySelectorAllHooks(doc, wrapper) ==
    SelectSeq([p \in 1..Len(doc.hooks) |-> p],
              LAMBDA p : wrapper = 1 \/ closest(doc, p) = wrapper)

\* an entry of that._elements: undefined (no hook), one element, or an array
NoHook == [array |-> FALSE, at |-> <<>>]

\* the test of line 859 that takes every hook for an own one
OwnHookAny(doc, hook, self) == TRUE

\* line 859: only process own accordion elements
OwnHook(doc, hook, self) == closest(doc, hook) = self

\* the body of the loop that keeps only the last hook of a role
cacheStepLast(entry, hook) == [array |-> FALSE, at |-> <<hook>>]

\* the body of the loop over the hooks: the first hook of a role is kept
\* as it is, the second one turns the entry into an array
cacheStep(entry, hook) ==
    IF entry.at # <<>>
    THEN [array |-> TRUE,
          at |-> Append(IF entry.array THEN entry.at ELSE <<entry.at[1]>>, hook)]
    ELSE [array |-> FALSE, at |-> <<hook>>]

RECURSIVE cacheFrom(_, _, _, _)
\* the loop over hooks; own tells whether the widget tests the ownership
cacheFrom(doc, elements, hooks, own) ==
    IF hooks = <<>>
    THEN elements
    ELSE LET hook == Head(hooks)
             key == doc.hooks[hook].role
         IN  cacheFrom(doc,
                       IF own => OwnHook(doc, hook, elements.self)
                       THEN [elements EXCEPT ![key] = cacheStep(@, hook)]
                       ELSE elements,
                       Tail(hooks), own)

\* cacheElements of the Accordion (own) and of the Carousel (not own), on a
\* wrapper whose hooks carry the roles of Roles
cacheElementsOf(doc, wrapper, own) ==
    cacheFrom(doc,
              [self |-> wrapper, item |-> NoHook, button |-> NoHook,
               panel |-> NoHook],
              querySelectorAllHooks(doc, wrapper), own)

\* the documents: the items of root 2 follow one another
NestedUnits ==
    {units \in SeqsUpTo({1, 2}, MaxUnits) :
        \A u, v \in DOMAIN units :
            (u < v /\ units[u] = 2 /\ units[v] = 2)
            => \A x \in u..v : units[x] = 2}

InitNested ==
    /\ \E units \in NestedUnits :
           \E annotated \in SUBSET {p \in DOMAIN HooksOf(units) :
                                        HooksOf(units)[p].role = "item"} :
               dom = [hooks |-> HooksOf(units), expanded |-> annotated]
    /\ accordion \in
           [{1, 2} -> {[cached |-> [item |-> NoHook]]
                         @@ UnconstructedAccordion(
                                [item |-> 0, button |-> 0, panel |-> 0,
                                 dataSingleExpansion |-> s], {}) :
                       s \in {Absent, ""}}]
    /\ page = [hidden |-> FALSE, granite |-> FALSE]
    /\ carousel = IdleCarousel

\* the instance on root k as a handler finds it: the items of its cache
\* that carry data-cmp-expanded, and no error raised
OnRoot(k, cached, handler) ==
    [accordion[k] EXCEPT
        !.m = [item |-> Len(cached.item.at), button |-> Len(cached.button.at),
               panel |-> Len(cached.panel.at),
               dataSingleExpansion |-> accordion[k].m.dataSingleExpansion],
        !.expanded = {i \in 0..(Len(cached.item.at) - 1) :
                          cached.item.at[i + 1] \in dom.expanded},
        !.threw = FALSE, !.last = handler]

\* the handler leaves the instance a; the data-cmp-expanded attributes it
\* set and removed are those of the items of its cache
CommitNested(k, cached, a) ==
    /\ accordion' = [accordion EXCEPT ![k] = a]
    /\ dom' = [dom EXCEPT !.expanded =
                   (@ \ {cached.item.at[i] : i \in DOMAIN cached.item.at})
                   \cup {cached.item.at[i + 1] : i \in a.expanded}]
    /\ UNCHANGED <<carousel, page>>

\* new Accordion({element: root k}): cacheElements, then the rest of init
ConstructNested(k) ==
    /\ accordion[k].is
    /\ LET cached == cacheElementsOf(dom, k, TRUE)
       IN  CommitNested(k, cached,
               [AccordionInit(OnRoot(k, cached, "init"), page.granite)
                   EXCEPT !.cached = cached])

\* a click on button i of the instance on root k
ClickNested(k, i) ==
    /\ accordion[k].bound /\ HasElement(accordion[k].elements.button, i)
    /\ CommitNested(k, accordion[k].cached,
           onButtonClick(OnRoot(k, accordion[k].cached, "click"), i))

NextNested ==
    \/ \E k \in {1, 2} : ConstructNested(k)
    \/ \E k \in {1, 2}, i \in 0..(MaxUnits - 1) : ClickNested(k, i)

SpecNested == InitNested /\ [][NextNested]_vars


(***************************************************************************)
(* Claims about nested Accordions and cacheElements (specification         *)
(* SpecNested).                                                            *)
(***************************************************************************)
\* the hooks an instance caches, of whatever role
CachedBy(k) ==
    UNION {{accordion[k].cached[key].at[i] :
                i \in DOMAIN accordion[k].cached[key].at} :
           key \in {"item", "button", "panel"}}

\* the data-cmp-expanded attributes of the items below the nearest root k,
\* in the document expanded is taken from
ExpandedOf(k, expanded) ==
    {p \in expanded : closest(dom, p) = k}

\* C33: once both Accordions are constructed, every hook is cached by
\* exactly one instance, the one on the nearest root above the hook, and a
\* click on a button of one Accordion (which toggles its item) leaves the
\* data-cmp-expanded attributes of the items of the other one as they are.
C33_NestedOwnership ==
    (\A k \in {1, 2} : ~accordion[k].is)
    => /\ \A p \in DOMAIN dom.hooks :
              \A k \in {1, 2} : (p \in CachedBy(k)) <=> (closest(dom, p) = k)
       /\ \A k \in {1, 2}, i \in 0..(MaxUnits - 1) :
              LET cached == accordion[k].cached
                  after == onButtonClick(OnRoot(k, cached, "click"), i)
                  expanded ==
                      (dom.expanded
                          \ {cached.item.at[x] : x \in DOMAIN cached.item.at})
                      \cup {cached.item.at[x + 1] : x \in after.expanded}
              IN  ExpandedOf(3 - k, expanded) = ExpandedOf(3 - k, dom.expanded)

\* both Accordions have items, the one in single expansion mode was clicked
\* and an item of the other one is expanded next to it
C33_Witness ==
    /\ \A k \in {1, 2} : accordion[k].bound
    /\ \E k \in {1, 2} :
           /\ accordion[k].last = "click"
           /\ accordion[k].properties.singleExpansion
           /\ Cardinality(ExpandedOf(k, dom.expanded)) = 1
           /\ accordion[k].elements.item >= 2
           /\ ExpandedOf(3 - k, dom.expanded) # {}


\* the hooks of a role that cacheElements of a widget looks at below a
\* wrapper, in document order: the Accordion those it owns, the Carousel all
HooksWithRole(wrapper, key, own) ==
    SelectSeq(querySelectorAllHooks(dom, wrapper),
              LAMBDA p : /\ dom.hooks[p].role = key
                         /\ own => closest(dom, p) = wrapper)

C35_KeysBoundedClicksWrap ==
    \A c \in DOMAIN carousel :
        (carousel[c].bound /\ IsDefined(Items(c)))
        => /\ \A keyCode \in {ARROW_LEFT, ARROW_UP, ARROW_RIGHT, ARROW_DOWN} :
                  (carousel[c].active
                       = IF keyCode \in {ARROW_LEFT, ARROW_UP}
                         THEN 0 ELSE Items(c) - 1)
                  => CarouselView(onKeyDown(Begin, c, keyCode, "other").car[c])
                         = CarouselView(carousel[c])
           /\ (carousel[c].elements.previous /\ carousel[c].active = 0)
                  => navigate(Begin, c, getPreviousIndex(Begin, c)).car[c].active
                         = Items(c) - 1
           /\ (carousel[c].elements.next /\ carousel[c].active = Items(c) - 1)
                  => navigate(Begin, c, getNextIndex(Begin, c)).car[c].active = 0


(***************************************************************************)
(* Further claims about the Accordion (specification SpecAccordion).       *)
(***************************************************************************)
\* C36: an Accordion in single-expansion mode with N >= 1 items has exactly
\* one expanded item in every state after init, whatever clicks, key
\* presses and remote requests it has handled.
C36_SingleExpansionExactlyOne ==
    (AccordionReady /\ SingleExpansionMode) => Cardinality(accordion.expanded) = 1

\* a single-expansion Accordion without annotated item that a remote
\* request moved to its last item
C36_Witness ==
    /\ AccordionReady /\ SingleExpansionMode /\ accordion.annotated = {}
    /\ accordion.last = "message" /\ accordion.elements.item >= 2
    /\ accordion.expanded = {accordion.elements.item - 1}


(***************************************************************************)
(* Claims about a Carousel without autoplay (specification Spec).          *)
(***************************************************************************)
\* C38: a Carousel whose autoplay is disabled has no live timer and is not
\* paused in any reachable state, whatever clicks, keys, pointer moves,
\* navigations and remote requests it has handled.
C38_NoAutoplayNoTimer ==
    \A c \in DOMAIN carousel :
        (Constructed(c) /\ ~carousel[c].properties.autoplay)
        => carousel[c].timers = {} /\ ~carousel[c].paused

\* a Carousel without autoplay that has both controls, has been navigated
\* by hand and is hovered
C38_Witness ==
    \E c \in DOMAIN carousel :
        /\ carousel[c].bound /\ ~carousel[c].properties.autoplay
        /\ carousel[c].m.pause /\ carousel[c].m.play
        /\ carousel[c].hovered /\ carousel[c].navigatedBy = "manual"
        /\ carousel[c].active = 1 /\ Items(c) >= 2
        /\ carousel[c].timers = {} /\ ~carousel[c].paused


(***************************************************************************)
(* Specification SpecRemoval: one autoplaying Carousel with N >= 2 items   *)
(* and one indicator per item whose root is taken out of the document.     *)
(* No code runs at the removal: the observer of onDocumentReady looks at   *)
(* added nodes only.  The interval and the subscription of the instance    *)
(* stay; pointer and keyboard events reach roots in the document alone.    *)
(***************************************************************************)
InitRemoval ==
    /\ \E m \in AutoplayMarkups : carousel = (1 :> Unconstructed(m, Absent))
    /\ page \in [hidden : {FALSE}, granite : BOOLEAN]
    /\ accordion = IdleAccordion
    /\ dom = IdleDom

\* root.remove(), or the removal of a node that holds the root.  History:
\* liveAtRemoval, and navigatedBy starts again, so that it names the last
\* navigation since the removal.
Remove(c) ==
    /\ Constructed(c) /\ carousel[c].attached
    /\ carousel' = [carousel EXCEPT ![c].attached = FALSE,
                                    ![c].hovered = FALSE,
                                    ![c].threw = FALSE,
                                    ![c].navigatedBy = "none",
                                    ![c].liveAtRemoval = carousel[c].timers # {}]
    /\ UNCHANGED <<page, accordion, dom>>

NextRemoval ==
    \/ \E c \in DOMAIN carousel : Construct(c)
    \/ \E c \in DOMAIN carousel : carousel[c].attached /\ PauseClick(c)
    \/ \E c \in DOMAIN carousel : carousel[c].attached /\ PlayClick(c)
    \/ \E c \in DOMAIN carousel : carousel[c].attached /\ MouseEnter(c)
    \/ \E c \in DOMAIN carousel : carousel[c].attached /\ MouseLeave(c)
    \/ \E c \in DOMAIN carousel : Remove(c)
    \/ \E c \in DOMAIN carousel, id \in 1..MaxTimers, f \in BOOLEAN :
           (f => carousel[c].attached) /\ TimerTick(c, id, f)
    \/ VisibilityChange
    \/ \E message \in Messages : CarouselMessage(message)

SpecRemoval == InitRemoval /\ [][NextRemoval]_vars

\* C39: a Carousel whose root was taken out of the document while an
\* interval of it was live has a live interval and is not paused in every
\* later state, and on a visible page a tick of it moves activeIndex on to
\* the next item and leaves an interval live.
C39_RemovedKeepsTicking ==
    \A c \in DOMAIN carousel :
        (~carousel[c].attached /\ carousel[c].liveAtRemoval)
        => /\ carousel[c].timers # {}
           /\ ~carousel[c].paused
           /\ (~page.hidden /\ ValidIndex(c, carousel[c].active))
                  => LET after == intervalCallback(BeginEvent("timer"), c, FALSE).car[c]
                     IN  /\ after.active = (carousel[c].active + 1) % Items(c)
                         /\ after.timers # {}


(***************************************************************************)
(* Specification SpecHover: the one Carousel of a document, with autoplay, *)
(* with the pause on hover and with both controls, under the events that   *)
(* pause and resume it.  dom.events keeps the events handled so far, the   *)
(* latest last and at most MaxTrail of them (history only).                *)
(***************************************************************************)
MaxTrail == 3

InitHover ==
    /\ \E m \in CarouselMarkups :
           /\ m.item >= 1 /\ m.indicator = m.item /\ m.pause /\ m.play
           /\ m.dataAutoplay # Absent /\ m.dataAutopauseDisabled = Absent
           /\ carousel = (1 :> Unconstructed(m, Absent))
    /\ page = [hidden |-> FALSE, granite |-> FALSE]
    /\ accordion = IdleAccordion
    /\ dom = [events |-> <<>>]

HoverEvents ==
    {"init", "pause click", "play click", "space", "mouseenter", "mouseleave",
     "tick"}

\* whether the event can reach a handler of instance c: the listeners of
\* bindEvents exist once init ran, a disabled control dispatches no click,
\* the pointer enters and leaves in turn, and an interval fires while live
Possible(c, event) ==
    CASE event = "init" -> carousel[c].is
      [] event = "pause click" -> carousel[c].bound /\ ~carousel[c].pauseDisabled
      [] event = "play click" -> carousel[c].bound /\ ~carousel[c].playDisabled
      [] event = "space" -> carousel[c].bound
      [] event = "mouseenter" -> carousel[c].bound /\ ~carousel[c].hovered
      [] event = "mouseleave" -> carousel[c].bound /\ carousel[c].hovered
      [] event = "tick" -> carousel[c].timers # {}

\* the handler of the event
Handle(c, event) ==
    CASE event = "init" -> CarouselInit(Begin, c)
      [] event = "pause click" -> ClickPause(Begin, c)
      [] event = "play click" -> ClickPlay(Begin, c)
      [] event = "space" -> onKeyDown(Begin, c, SPACE, "other")
      [] event = "mouseenter" ->
             onMouseEnter([Begin EXCEPT !.car[c].hovered = TRUE], c)
      [] event = "mouseleave" ->
             onMouseLeave([Begin EXCEPT !.car[c].hovered = FALSE], c)
      [] event = "tick" -> intervalCallback(BeginEvent("timer"), c, FALSE)

HoverEvent(c, event) ==
    /\ Possible(c, event)
    /\ LET w == Handle(c, event)
           trail == Append(dom.events, event)
       IN  /\ Bounded(w)
           /\ carousel' = w.car
           /\ page' = w.page
           /\ dom' = [events |-> IF Len(trail) > MaxTrail
                                 THEN Tail(trail) ELSE trail]
    /\ UNCHANGED accordion

NextHover == \E c \in DOMAIN carousel, event \in HoverEvents : HoverEvent(c, event)

SpecHover == InitHover /\ [][NextHover]_vars

\* C37: on the one Carousel of a document, with autoplay, pause on hover
\* and both controls, the state after a mouseleave has pausedFlag false and
\* a live timer, whatever paused the Carousel before the pointer entered.
C37_MouseLeaveResumes ==
    (dom.events # <<>> /\ dom.events[Len(dom.events)] = "mouseleave")
    => \A c \in DOMAIN carousel :
           ~carousel[c].paused /\ carousel[c].timers # {}

\* the user paused through the pause control, then the pointer entered and
\* left: the Carousel plays again
C37_Witness ==
    /\ dom.events = <<"pause click", "mouseenter", "mouseleave">>
    /\ \A c \in DOMAIN carousel :
           ~carousel[c].paused /\ carousel[c].timers # {} /\ Items(c) >= 2

====
